---- MODULE Spec2Model ----
(***************************************************************************)
(* A model of queue.c: a queue of strings kept in a circular doubly linked *)
(* list with a sentinel head (struct list_head), and the in-place          *)
(* algorithms over it.  Memory is modelled at the level of the links: a    *)
(* cell is an address, next/prev map a cell to the cell it points to, and  *)
(* value maps an element to the string its buffer holds.                   *)
(***************************************************************************)
EXTENDS Integers, Sequences, FiniteSets, Bags, TLC

\* ------------------------------------------------------------------------
\* Bounds
\* ------------------------------------------------------------------------

\* Number of elements that may be live at once in the full-API specification.
MaxLive == 3

\* Longest ring the algorithm specification draws as its input.
MaxLen == 4

\* Number of operations the algorithm specification applies to its input.
MaxOps == 2

\* Number of element cells there are.
MaxNodes == IF MaxLive > MaxLen THEN MaxLive ELSE MaxLen

\* Largest capacity of the caller's output buffer.
BufCap == 2

\* ------------------------------------------------------------------------
\* Addresses
\* ------------------------------------------------------------------------

\* The null pointer.
NULL == 0

\* What the links of an unlinked node hold (list_del leaves them undefined).
Poison == -1

\* Element cells (element_t); the list_head of an element is the element.
Elems == 1 .. MaxNodes

\* The cell malloc returns for the ring's sentinel in q_new.
QHead == MaxNodes + 1

\* Automatic list_heads: new_head of q_sort and dummy of merge, one pair per
\* recursion depth (a frame at depth d is dead before the next one at depth d
\* is entered).
MaxDepth == MaxNodes

new_head_at(d) == MaxNodes + 2 + 2 * d

dummy_at(d) == MaxNodes + 3 + 2 * d

StackCells == (MaxNodes + 2) .. (MaxNodes + 3 + 2 * MaxDepth)

Cells == Elems \cup {QHead} \cup StackCells

\* Payload strings: sequences of non-zero bytes (the terminator is implicit).
Strings == { <<1>>, <<1, 2>>, <<2>> }

\* value of a cell that owns no string buffer.
NoValue == << 0 >>

\* ------------------------------------------------------------------------
\* C strings
\* ------------------------------------------------------------------------

\* The byte at 1-based offset i of a NUL-terminated string s.
ByteAt(s, i) == IF i <= Len(s) THEN s[i] ELSE 0

RECURSIVE strcmp_from(_, _, _)
strcmp_from(a, b, i) ==
    LET x == ByteAt(a, i)
        y == ByteAt(b, i)
    IN  IF x # y THEN x - y
        ELSE IF x = 0 THEN 0
        ELSE strcmp_from(a, b, i + 1)

\* strcmp: the difference of the first bytes that differ.
strcmp(a, b) == strcmp_from(a, b, 1)

\* strlen over an array of bytes: the offset of the first NUL.
RECURSIVE strlen_from(_, _)
strlen_from(bytes, i) ==
    IF i > Len(bytes) \/ bytes[i] = 0 THEN i - 1
    ELSE strlen_from(bytes, i + 1)

\* The string an array of bytes holds: the bytes before the first NUL.
CStr(bytes) == SubSeq(bytes, 1, strlen_from(bytes, 1))

\* strncpy(dst, src, n): the n bytes written, src padded with NULs.
strncpy(src, n) == [i \in 1 .. n |-> ByteAt(src, i)]

\* ------------------------------------------------------------------------
\* list.h primitives over a heap h = [next, prev, value, alloc]
\* ------------------------------------------------------------------------

SetNext(h, c, v) == [h EXCEPT !.next[c] = v]

SetPrev(h, c, v) == [h EXCEPT !.prev[c] = v]

INIT_LIST_HEAD(h, head) == SetPrev(SetNext(h, head, head), head, head)

list_empty(h, head) == h.next[head] = head

list_add(h, node, head) ==
    LET nxt == h.next[head]
        h1 == SetPrev(h, nxt, node)
        h2 == SetNext(h1, node, nxt)
        h3 == SetPrev(h2, node, head)
    IN  SetNext(h3, head, node)

list_add_tail(h, node, head) ==
    LET prv == h.prev[head]
        h1 == SetNext(h, prv, node)
        h2 == SetNext(h1, node, head)
        h3 == SetPrev(h2, node, prv)
    IN  SetPrev(h3, head, node)

list_del(h, node) ==
    LET nxt == h.next[node]
        prv == h.prev[node]
        h1 == SetPrev(h, nxt, prv)
        h2 == SetNext(h1, prv, nxt)
    IN  SetNext(SetPrev(h2, node, Poison), node, Poison)

list_move_tail(h, node, head) == list_add_tail(list_del(h, node), node, head)

list_splice(h, list, head) ==
    LET head_first == h.next[head]
        list_first == h.next[list]
        list_last == h.prev[list]
    IN  IF list_empty(h, list) THEN h
        ELSE LET h1 == SetNext(h, head, list_first)
                 h2 == SetPrev(h1, list_first, head)
                 h3 == SetNext(h2, list_last, head_first)
             IN  SetPrev(h3, head_first, list_last)

list_splice_tail(h, list, head) ==
    LET head_last == h.prev[head]
        list_first == h.next[list]
        list_last == h.prev[list]
    IN  IF list_empty(h, list) THEN h
        ELSE LET h1 == SetPrev(h, head, list_last)
                 h2 == SetNext(h1, list_last, head)
                 h3 == SetPrev(h2, list_first, head_last)
             IN  SetNext(h3, head_last, list_first)

list_splice_tail_init(h, list, head) ==
    INIT_LIST_HEAD(list_splice_tail(h, list, head), list)

list_cut_position(h, head_to, head_from, node) ==
    LET head_from_first == h.next[head_from]
    IN  IF list_empty(h, head_from) THEN h
        ELSE IF head_from = node THEN INIT_LIST_HEAD(h, head_to)
        ELSE LET h1 == SetNext(h, head_from, h.next[node])
                 h2 == SetPrev(h1, h1.next[head_from], head_from)
                 h3 == SetPrev(h2, head_to, node)
                 h4 == SetNext(h3, node, head_to)
                 h5 == SetNext(h4, head_to, head_from_first)
             IN  SetPrev(h5, h5.next[head_to], head_to)

\* The end of a frame: its automatic list_heads stop existing.
LeaveFrame(h, cells) ==
    [h EXCEPT !.next = [c \in Cells |-> IF c \in cells THEN Poison ELSE @[c]],
              !.prev = [c \in Cells |-> IF c \in cells THEN Poison ELSE @[c]]]

\* ------------------------------------------------------------------------
\* queue.c
\* ------------------------------------------------------------------------

\* malloc of the sentinel; ok says whether the allocation succeeded.
q_new(h, ok) ==
    IF ~ok THEN [h |-> h, ret |-> NULL]
    ELSE [h |-> INIT_LIST_HEAD([h EXCEPT !.alloc = @ \cup {QHead}], QHead),
          ret |-> QHead]

\* free(e->value); free(e)
q_release_element(h, e) ==
    [h EXCEPT !.value[e] = NoValue, !.alloc = @ \ {e}]

\* list_for_each_entry_safe of q_free
RECURSIVE q_free_loop(_, _, _, _)
q_free_loop(h, l, entry, safe) ==
    IF entry = l THEN h
    ELSE LET h1 == q_release_element(list_del(h, entry), entry)
         IN  q_free_loop(h1, l, safe, h1.next[safe])

q_free(h, l) ==
    IF l = NULL THEN h
    ELSE LET entry == h.next[l]
             h1 == q_free_loop(h, l, entry, h.next[entry])
             h2 == SetNext(SetPrev(h1, l, Poison), l, Poison)
         IN  [h2 EXCEPT !.alloc = @ \ {l}]

\* create_element without the free(elem) when the second malloc fails.
create_element_leak(h, s, e, ok1, ok2) ==
    IF ~ok1 THEN [h |-> h, ret |-> NULL]
    ELSE LET h1 == [h EXCEPT !.alloc = @ \cup {e}]
             length == Len(s) + 1
         IN  IF ~ok2
             THEN [h |-> h1, ret |-> NULL]
             ELSE [h |-> [h1 EXCEPT !.value[e] = CStr(strncpy(s, length))],
                   ret |-> e]

\* e is the cell the first malloc returns when ok1; ok2 is whether the
\* malloc of the string buffer succeeds.
create_element(h, s, e, ok1, ok2) ==
    IF ~ok1 THEN [h |-> h, ret |-> NULL]
    ELSE LET h1 == [h EXCEPT !.alloc = @ \cup {e}]
             length == Len(s) + 1
         IN  IF ~ok2
             THEN [h |-> [h1 EXCEPT !.alloc = @ \ {e}], ret |-> NULL]
             ELSE [h |-> [h1 EXCEPT !.value[e] = CStr(strncpy(s, length))],
                   ret |-> e]

\* q_insert_head linking the element with list_add_tail.
q_insert_head_at_tail(h, head, s, e, ok1, ok2) ==
    IF head = NULL THEN [h |-> h, ret |-> FALSE]
    ELSE LET c == create_element(h, s, e, ok1, ok2)
         IN  IF c.ret = NULL THEN [h |-> c.h, ret |-> FALSE]
             ELSE [h |-> list_add_tail(c.h, c.ret, head), ret |-> TRUE]

q_insert_head(h, head, s, e, ok1, ok2) ==
    IF head = NULL THEN [h |-> h, ret |-> FALSE]
    ELSE LET c == create_element(h, s, e, ok1, ok2)
         IN  IF c.ret = NULL THEN [h |-> c.h, ret |-> FALSE]
             ELSE [h |-> list_add(c.h, c.ret, head), ret |-> TRUE]

q_insert_tail(h, head, s, e, ok1, ok2) ==
    IF head = NULL THEN [h |-> h, ret |-> FALSE]
    ELSE LET c == create_element(h, s, e, ok1, ok2)
         IN  IF c.ret = NULL THEN [h |-> c.h, ret |-> FALSE]
             ELSE [h |-> list_add_tail(c.h, c.ret, head), ret |-> TRUE]

\* The copy without the terminator: strncpy(sp, elem->value, bufsize) alone.
copy_out_noterm(b, str, bufsize) ==
    LET w == strncpy(str, bufsize)
    IN  [i \in 1 .. Len(b) |-> IF i <= bufsize THEN w[i] ELSE b[i]]

\* strncpy(sp, elem->value, bufsize); sp[bufsize - 1] = '\0', on the caller's
\* buffer b (an array of bytes, 1-based here).
copy_out(b, str, bufsize) ==
    LET w == strncpy(str, bufsize)
    IN  [i \in 1 .. Len(b) |->
            IF i = bufsize THEN 0
            ELSE IF i < bufsize THEN w[i]
            ELSE b[i]]

\* q_remove_head emptying the buffer when there is nothing to remove.
q_remove_head_clear(h, head, sp, bufsize, b) ==
    IF head = NULL \/ list_empty(h, head)
    THEN [h |-> h, ret |-> NULL,
          buf |-> IF sp # NULL THEN [b EXCEPT ![1] = 0] ELSE b]
    ELSE LET elem == h.next[head]
             b1 == IF sp # NULL THEN copy_out(b, h.value[elem], bufsize)
                   ELSE b
         IN  [h |-> list_del(h, h.next[head]), ret |-> elem, buf |-> b1]

\* sp is NULL or points to the caller's buffer b.
q_remove_head(h, head, sp, bufsize, b) ==
    IF head = NULL \/ list_empty(h, head)
    THEN [h |-> h, ret |-> NULL, buf |-> b]
    ELSE LET elem == h.next[head]
             b1 == IF sp # NULL THEN copy_out(b, h.value[elem], bufsize)
                   ELSE b
         IN  [h |-> list_del(h, h.next[head]), ret |-> elem, buf |-> b1]

\* q_remove_tail returning the first element while unlinking the last.
q_remove_tail_first(h, head, sp, bufsize, b) ==
    IF head = NULL \/ list_empty(h, head)
    THEN [h |-> h, ret |-> NULL, buf |-> b]
    ELSE LET elem == h.next[head]
             b1 == IF sp # NULL THEN copy_out(b, h.value[elem], bufsize)
                   ELSE b
         IN  [h |-> list_del(h, h.prev[head]), ret |-> elem, buf |-> b1]

q_remove_tail(h, head, sp, bufsize, b) ==
    IF head = NULL \/ list_empty(h, head)
    THEN [h |-> h, ret |-> NULL, buf |-> b]
    ELSE LET elem == h.prev[head]
             b1 == IF sp # NULL THEN copy_out(b, h.value[elem], bufsize)
                   ELSE b
         IN  [h |-> list_del(h, h.prev[head]), ret |-> elem, buf |-> b1]

\* list_for_each of q_size
RECURSIVE q_size_loop(_, _, _, _)
q_size_loop(h, head, node, size) ==
    IF node = head THEN size
    ELSE q_size_loop(h, head, h.next[node], size + 1)

q_size(h, head) ==
    IF head = NULL THEN 0
    ELSE q_size_loop(h, head, h.next[head], 0)

RECURSIVE q_mid_loop(_, _, _, _)
q_mid_loop(h, head, slow, fast) ==
    IF fast # NULL /\ fast # head /\ h.next[fast] # head
    THEN q_mid_loop(h, head, h.next[slow], h.next[h.next[fast]])
    ELSE slow

q_mid(h, head) ==
    IF head = NULL \/ list_empty(h, head) THEN head
    ELSE q_mid_loop(h, head, h.next[head], h.next[h.next[head]])

\* q_delete_mid without the list_del.
q_delete_mid_linked(h, head) ==
    IF head = NULL \/ list_empty(h, head) THEN [h |-> h, ret |-> FALSE]
    ELSE LET mid == q_mid(h, head)
         IN  [h |-> q_release_element(h, mid), ret |-> TRUE]

q_delete_mid(h, head) ==
    IF head = NULL \/ list_empty(h, head) THEN [h |-> h, ret |-> FALSE]
    ELSE LET mid == q_mid(h, head)
         IN  [h |-> q_release_element(list_del(h, mid), mid), ret |-> TRUE]

cmp(h, e1, e2) == strcmp(h.value[e1], h.value[e2])

\* The loop of q_delete_dup never recording the element it kept.
RECURSIVE q_delete_dup_loop_nocur(_, _, _, _, _)
q_delete_dup_loop_nocur(h, head, node, safe, cur) ==
    IF node = head THEN h
    ELSE LET entry == node
         IN  IF cur # NULL /\ cmp(h, cur, entry) = 0
             THEN LET h1 == q_release_element(list_del(h, node), entry)
                  IN  q_delete_dup_loop_nocur(h1, head, safe, h1.next[safe],
                                              cur)
             ELSE q_delete_dup_loop_nocur(h, head, safe, h.next[safe], cur)

\* list_for_each_safe of q_delete_dup
RECURSIVE q_delete_dup_loop(_, _, _, _, _)
q_delete_dup_loop(h, head, node, safe, cur) ==
    IF node = head THEN h
    ELSE LET entry == node
         IN  IF cur # NULL /\ cmp(h, cur, entry) = 0
             THEN LET h1 == q_release_element(list_del(h, node), entry)
                  IN  q_delete_dup_loop(h1, head, safe, h1.next[safe], cur)
             ELSE q_delete_dup_loop(h, head, safe, h.next[safe], entry)

q_delete_dup(h, head) ==
    IF head = NULL THEN [h |-> h, ret |-> FALSE]
    ELSE IF list_empty(h, head) THEN [h |-> h, ret |-> TRUE]
    ELSE LET node == h.next[head]
         IN  [h |-> q_delete_dup_loop(h, head, node, h.next[node], NULL),
              ret |-> TRUE]

\* The loop of q_swap without the step over the second element of a pair.
RECURSIVE q_swap_loop_noskip(_, _, _)
q_swap_loop_noskip(h, head, entry) ==
    IF entry = head THEN h
    ELSE LET next_entry == h.next[entry]
         IN  IF next_entry # head
             THEN LET temp == h.value[entry]
                      h1 == [h EXCEPT !.value[entry] = h.value[next_entry]]
                      h2 == [h1 EXCEPT !.value[next_entry] = temp]
                  IN  q_swap_loop_noskip(h2, head, h2.next[entry])
             ELSE h

\* list_for_each_entry of q_swap
RECURSIVE q_swap_loop(_, _, _)
q_swap_loop(h, head, entry) ==
    IF entry = head THEN h
    ELSE LET next_entry == h.next[entry]
         IN  IF next_entry # head
             THEN LET temp == h.value[entry]
                      h1 == [h EXCEPT !.value[entry] = h.value[next_entry]]
                      h2 == [h1 EXCEPT !.value[next_entry] = temp]
                  IN  q_swap_loop(h2, head, h2.next[next_entry])
             ELSE h

q_swap(h, head) ==
    IF head = NULL \/ list_empty(h, head) THEN h
    ELSE q_swap_loop(h, head, h.next[head])

\* list_for_each_safe of q_reverse
RECURSIVE q_reverse_loop(_, _, _, _)
q_reverse_loop(h, head, node, safe) ==
    IF node = head THEN h
    ELSE LET prv == h.prev[node]
             nxt == h.next[node]
             h1 == SetNext(SetPrev(h, node, nxt), node, prv)
         IN  q_reverse_loop(h1, head, safe, h1.next[safe])

\* q_reverse leaving the links of the sentinel as they were.
q_reverse_nohead(h, head) ==
    IF head = NULL \/ list_empty(h, head) THEN h
    ELSE LET node == h.next[head]
         IN  q_reverse_loop(h, head, node, h.next[node])

\* q_reverse exchanging the links of the sentinel without the temporary.
q_reverse_notemp(h, head) ==
    IF head = NULL \/ list_empty(h, head) THEN h
    ELSE LET node == h.next[head]
             h1 == q_reverse_loop(h, head, node, h.next[node])
             h2 == SetNext(h1, head, h1.prev[head])
         IN  SetPrev(h2, head, h2.next[head])

q_reverse(h, head) ==
    IF head = NULL \/ list_empty(h, head) THEN h
    ELSE LET node == h.next[head]
             h1 == q_reverse_loop(h, head, node, h.next[node])
             head_next == h1.next[head]
             h2 == SetNext(h1, head, h1.prev[head])
         IN  SetPrev(h2, head, head_next)

\* merge taking the larger front.
merge_takes_a_gt(h, a, b) == cmp(h, h.next[a], h.next[b]) > 0

\* merge taking the front of a on a tie.
merge_takes_a_le(h, a, b) == cmp(h, h.next[a], h.next[b]) <= 0

\* The choice merge makes between the fronts of a and b.
merge_takes_a(h, a, b) == cmp(h, h.next[a], h.next[b]) < 0

RECURSIVE merge_loop(_, _, _, _)
merge_loop(h, a, b, dummy) ==
    IF ~list_empty(h, a) /\ ~list_empty(h, b)
    THEN IF merge_takes_a(h, a, b)
         THEN merge_loop(list_move_tail(h, h.next[a], dummy), a, b, dummy)
         ELSE merge_loop(list_move_tail(h, h.next[b], dummy), a, b, dummy)
    ELSE h

\* merge without the splice of what is left of b.
merge_drop_b(h, a, b, d) ==
    LET dummy == dummy_at(d)
        h0 == INIT_LIST_HEAD(h, dummy)
        h1 == merge_loop(h0, a, b, dummy)
        h2 == IF ~list_empty(h1, a) THEN list_splice_tail_init(h1, a, dummy)
              ELSE h1
        h4 == list_splice(h2, dummy, a)
    IN  LeaveFrame(h4, {dummy})

\* merge without the final splice of dummy into a.
merge_no_result(h, a, b, d) ==
    LET dummy == dummy_at(d)
        h0 == INIT_LIST_HEAD(h, dummy)
        h1 == merge_loop(h0, a, b, dummy)
        h2 == IF ~list_empty(h1, a) THEN list_splice_tail_init(h1, a, dummy)
              ELSE h1
        h3 == IF ~list_empty(h2, b) THEN list_splice_tail_init(h2, b, dummy)
              ELSE h2
    IN  LeaveFrame(h3, {dummy})

\* merge leaving b as it was after the splice of what is left of it.
merge_b_not_init(h, a, b, d) ==
    LET dummy == dummy_at(d)
        h0 == INIT_LIST_HEAD(h, dummy)
        h1 == merge_loop(h0, a, b, dummy)
        h2 == IF ~list_empty(h1, a) THEN list_splice_tail_init(h1, a, dummy)
              ELSE h1
        h3 == IF ~list_empty(h2, b) THEN list_splice_tail(h2, b, dummy)
              ELSE h2
        h4 == list_splice(h3, dummy, a)
    IN  LeaveFrame(h4, {dummy})

\* d is the depth of the calling frame; it picks the cell of dummy.
merge(h, a, b, d) ==
    LET dummy == dummy_at(d)
        h0 == INIT_LIST_HEAD(h, dummy)
        h1 == merge_loop(h0, a, b, dummy)
        h2 == IF ~list_empty(h1, a) THEN list_splice_tail_init(h1, a, dummy)
              ELSE h1
        h3 == IF ~list_empty(h2, b) THEN list_splice_tail_init(h2, b, dummy)
              ELSE h2
        h4 == list_splice(h3, dummy, a)
    IN  LeaveFrame(h4, {dummy})

\* The cut of q_sort after the node that follows mid.
q_sort_cut_after(h, head, d) ==
    LET mid == q_mid(h, head)
        new_head == new_head_at(d)
        h0 == INIT_LIST_HEAD(h, new_head)
    IN  list_cut_position(h0, new_head, head, h0.next[mid])

\* The cut of q_sort: new_head gets the elements up to and including mid.
q_sort_cut(h, head, d) ==
    LET mid == q_mid(h, head)
        new_head == new_head_at(d)
        h0 == INIT_LIST_HEAD(h, new_head)
    IN  list_cut_position(h0, new_head, head, mid)

\* d is the recursion depth; it picks the cell of new_head.
RECURSIVE q_sort_at(_, _, _)
q_sort_at(h, head, d) ==
    IF head = NULL \/ list_empty(h, head) \/ h.prev[head] = h.next[head]
    THEN h
    ELSE LET new_head == new_head_at(d)
             h1 == q_sort_cut(h, head, d)
             h2 == q_sort_at(h1, head, d + 1)
             h3 == q_sort_at(h2, new_head, d + 1)
             h4 == merge(h3, head, new_head, d)
         IN  LeaveFrame(h4, {new_head})

q_sort(h, head) == q_sort_at(h, head, 0)

\* ------------------------------------------------------------------------
\* State
\* ------------------------------------------------------------------------

VARIABLES
    head,     \* the caller's ring handle: NULL or the sentinel
    next,     \* next[c]: the next link of cell c
    prev,     \* prev[c]: the prev link of cell c
    value,    \* value[e]: the string the buffer of element e holds
    alloc,    \* the cells malloc returned and free has not released
    held,     \* the elements a pop returned and the caller still holds
    buf,      \* the caller's output buffer, BufCap bytes
    lastOp,   \* the operation that ran last
    ret,      \* what it returned
    arg,      \* the arguments it was called with
    pre,      \* the program state it started from
    trace,    \* algorithm specification: the operations applied to the input
    orig,     \* algorithm specification: the input
    pushed,   \* push/pop specification: bag of the strings inserted
    popped,   \* push/pop specification: bag of the strings of popped elements
    nPop      \* push/pop specification: number of pops called

prog == <<head, next, prev, value, alloc, held, buf>>

last == <<lastOp, ret, arg, pre>>

algoHist == <<trace, orig>>

ppHist == <<pushed, popped, nPop>>

vars == <<prog, last, algoHist, ppHist>>

\* The heap the operations work on.
H == [next |-> next, prev |-> prev, value |-> value, alloc |-> alloc]

\* The program state, as pre and orig record it.
Snap ==
    [head |-> head, next |-> next, prev |-> prev, value |-> value,
     alloc |-> alloc, held |-> held, buf |-> buf]

HeapOf(s) ==
    [next |-> s.next, prev |-> s.prev, value |-> s.value, alloc |-> s.alloc]

SetH(h) ==
    /\ next' = h.next
    /\ prev' = h.prev
    /\ value' = h.value
    /\ alloc' = h.alloc

\* The arguments of a call: the string of an insert, the buffer and capacity
\* of a pop.
Args(s, sp, bufsize) == [s |-> s, sp |-> sp, bufsize |-> bufsize]

NoArgs == Args(NoValue, NULL, 0)

DoneWith(op, r, a) ==
    /\ lastOp' = op
    /\ ret' = r
    /\ arg' = a
    /\ pre' = Snap

Done(op, r) == DoneWith(op, r, NoArgs)

\* The caller's output buffer before anything was copied into it.
Garbage == 255

EmptyHeap ==
    [next |-> [c \in Cells |-> Poison], prev |-> [c \in Cells |-> Poison],
     value |-> [e \in Elems |-> NoValue], alloc |-> {}]

\* A ring of the elements 1 .. n in this order, holding vals[1] .. vals[n].
RingOf(n, vals) ==
    [next |-> [c \in Cells |->
                  IF c = QHead THEN (IF n = 0 THEN QHead ELSE 1)
                  ELSE IF c \in 1 .. n THEN (IF c = n THEN QHead ELSE c + 1)
                  ELSE Poison],
     prev |-> [c \in Cells |->
                  IF c = QHead THEN (IF n = 0 THEN QHead ELSE n)
                  ELSE IF c \in 1 .. n THEN (IF c = 1 THEN QHead ELSE c - 1)
                  ELSE Poison],
     value |-> [e \in Elems |-> IF e \in 1 .. n THEN vals[e] ELSE NoValue],
     alloc |-> (1 .. n) \cup {QHead}]

InitLast ==
    /\ lastOp = "init"
    /\ ret = NULL
    /\ arg = NoArgs
    /\ pre = Snap

InitHist ==
    /\ trace = << >>
    /\ orig = Snap
    /\ pushed = EmptyBag
    /\ popped = EmptyBag
    /\ nPop = 0

\* Full API: no ring yet, nothing allocated.
Init ==
    /\ head = NULL
    /\ next = EmptyHeap.next
    /\ prev = EmptyHeap.prev
    /\ value = EmptyHeap.value
    /\ alloc = {}
    /\ held = {}
    /\ buf = [i \in 1 .. BufCap |-> Garbage]
    /\ InitLast
    /\ InitHist

\* ------------------------------------------------------------------------
\* Operations
\* ------------------------------------------------------------------------

\* The cells malloc may return for an element, with at most limit elements
\* live.
FreeCells(limit) == (1 .. limit) \ alloc

New ==
    /\ head = NULL
    /\ \E ok \in BOOLEAN :
          LET r == q_new(H, ok)
          IN  /\ SetH(r.h)
              /\ head' = r.ret
              /\ Done("q_new", r.ret)
    /\ UNCHANGED <<held, buf>>

Free ==
    /\ SetH(q_free(H, head))
    /\ head' = NULL
    /\ Done("q_free", NULL)
    /\ UNCHANGED <<held, buf>>

InsertHeadWith(s, e, ok1, ok2) ==
    LET r == q_insert_head(H, head, s, e, ok1, ok2)
    IN  /\ SetH(r.h)
        /\ DoneWith("q_insert_head", r.ret, Args(s, NULL, 0))
        /\ UNCHANGED <<head, held, buf>>

InsertTailWith(s, e, ok1, ok2) ==
    LET r == q_insert_tail(H, head, s, e, ok1, ok2)
    IN  /\ SetH(r.h)
        /\ DoneWith("q_insert_tail", r.ret, Args(s, NULL, 0))
        /\ UNCHANGED <<head, held, buf>>

\* The outcomes of the two mallocs of create_element, with at most limit
\* elements live.
InsertHeadOf(s, limit) ==
    \/ \E e \in FreeCells(limit), ok2 \in BOOLEAN :
          InsertHeadWith(s, e, TRUE, ok2)
    \/ InsertHeadWith(s, NULL, FALSE, FALSE)

InsertTailOf(s, limit) ==
    \/ \E e \in FreeCells(limit), ok2 \in BOOLEAN :
          InsertTailWith(s, e, TRUE, ok2)
    \/ InsertTailWith(s, NULL, FALSE, FALSE)

InsertHead(limit) == \E s \in Strings : InsertHeadOf(s, limit)

InsertTail(limit) == \E s \in Strings : InsertTailOf(s, limit)

\* The caller's sp is NULL or the address of buf; sps is the set the caller
\* draws it from.
BufAddr == 1

\* The capacities the caller draws bufsize from (the code reads bufsize only
\* when sp is not NULL).
Sizes(sp) == IF sp = NULL THEN {BufCap} ELSE 1 .. BufCap

RemoveHead(sps) ==
    \E sp \in sps : \E bufsize \in Sizes(sp) :
        LET r == q_remove_head(H, head, sp, bufsize, buf)
        IN  /\ SetH(r.h)
            /\ buf' = r.buf
            /\ held' = IF r.ret = NULL THEN held ELSE held \cup {r.ret}
            /\ DoneWith("q_remove_head", r.ret, Args(NoValue, sp, bufsize))
            /\ UNCHANGED head

RemoveTail(sps) ==
    \E sp \in sps : \E bufsize \in Sizes(sp) :
        LET r == q_remove_tail(H, head, sp, bufsize, buf)
        IN  /\ SetH(r.h)
            /\ buf' = r.buf
            /\ held' = IF r.ret = NULL THEN held ELSE held \cup {r.ret}
            /\ DoneWith("q_remove_tail", r.ret, Args(NoValue, sp, bufsize))
            /\ UNCHANGED head

\* The caller releases an element a pop gave it.
Release ==
    \E e \in held :
        /\ SetH(q_release_element(H, e))
        /\ held' = held \ {e}
        /\ Done("q_release_element", NULL)
        /\ UNCHANGED <<head, buf>>

Size ==
    /\ Done("q_size", q_size(H, head))
    /\ UNCHANGED prog

Mid ==
    /\ Done("q_mid", q_mid(H, head))
    /\ UNCHANGED prog

DeleteMid ==
    LET r == q_delete_mid(H, head)
    IN  /\ SetH(r.h)
        /\ Done("q_delete_mid", r.ret)
        /\ UNCHANGED <<head, held, buf>>

DeleteDup ==
    LET r == q_delete_dup(H, head)
    IN  /\ SetH(r.h)
        /\ Done("q_delete_dup", r.ret)
        /\ UNCHANGED <<head, held, buf>>

Swap ==
    /\ SetH(q_swap(H, head))
    /\ Done("q_swap", NULL)
    /\ UNCHANGED <<head, held, buf>>

Reverse ==
    /\ SetH(q_reverse(H, head))
    /\ Done("q_reverse", NULL)
    /\ UNCHANGED <<head, held, buf>>

Sort ==
    /\ SetH(q_sort(H, head))
    /\ Done("q_sort", NULL)
    /\ UNCHANGED <<head, held, buf>>

\* ------------------------------------------------------------------------
\* Specification of the full API: any sequence of operations on one ring.
\* ------------------------------------------------------------------------

NoHist == UNCHANGED <<algoHist, ppHist>>

ApiNew == New /\ NoHist

ApiFree == Free /\ NoHist

ApiInsertHead == InsertHead(MaxLive) /\ NoHist

ApiInsertTail == InsertTail(MaxLive) /\ NoHist

ApiRemoveHead == RemoveHead({NULL}) /\ NoHist

ApiRemoveTail == RemoveTail({NULL}) /\ NoHist

ApiRelease == Release /\ NoHist

ApiSize == Size /\ NoHist

ApiMid == Mid /\ NoHist

ApiDeleteMid == DeleteMid /\ NoHist

ApiDeleteDup == DeleteDup /\ NoHist

ApiSwap == Swap /\ NoHist

ApiReverse == Reverse /\ NoHist

ApiSort == Sort /\ NoHist

Next ==
    \/ ApiNew
    \/ ApiFree
    \/ ApiInsertHead
    \/ ApiInsertTail
    \/ ApiRemoveHead
    \/ ApiRemoveTail
    \/ ApiRelease
    \/ ApiSize
    \/ ApiMid
    \/ ApiDeleteMid
    \/ ApiDeleteDup
    \/ ApiSwap
    \/ ApiReverse
    \/ ApiSort

Spec == Init /\ [][Next]_vars

\* ------------------------------------------------------------------------
\* Specification of the algorithms: an arbitrary ring (or no ring) as the
\* input, and up to MaxOps operations applied to it.
\* ------------------------------------------------------------------------

InitAlgo ==
    /\ \/ /\ head = NULL
          /\ next = EmptyHeap.next
          /\ prev = EmptyHeap.prev
          /\ value = EmptyHeap.value
          /\ alloc = {}
       \/ \E n \in 0 .. MaxLen :
             \E vals \in [1 .. n -> Strings] :
                /\ head = QHead
                /\ next = RingOf(n, vals).next
                /\ prev = RingOf(n, vals).prev
                /\ value = RingOf(n, vals).value
                /\ alloc = RingOf(n, vals).alloc
    /\ held = {}
    /\ buf = [i \in 1 .. BufCap |-> Garbage]
    /\ InitLast
    /\ InitHist

AlgoStep ==
    /\ Len(trace) < MaxOps
    /\ trace' = Append(trace, lastOp')
    /\ UNCHANGED <<orig, ppHist>>

AlgoMid == Mid /\ AlgoStep

AlgoDeleteMid == DeleteMid /\ AlgoStep

AlgoDeleteDup == DeleteDup /\ AlgoStep

AlgoSwap == Swap /\ AlgoStep

AlgoReverse == Reverse /\ AlgoStep

AlgoSort == Sort /\ AlgoStep

NextAlgo ==
    \/ AlgoMid
    \/ AlgoDeleteMid
    \/ AlgoDeleteDup
    \/ AlgoSwap
    \/ AlgoReverse
    \/ AlgoSort

SpecAlgo == InitAlgo /\ [][NextAlgo]_vars

\* ------------------------------------------------------------------------
\* Specification of push then pop: inserts at either end of a fresh ring,
\* then as many pops, from either end, as inserts succeeded.
\* ------------------------------------------------------------------------

InitPP ==
    /\ head = QHead
    /\ next = RingOf(0, << >>).next
    /\ prev = RingOf(0, << >>).prev
    /\ value = EmptyHeap.value
    /\ alloc = {QHead}
    /\ held = {}
    /\ buf = [i \in 1 .. BufCap |-> Garbage]
    /\ InitLast
    /\ InitHist

Pushed(s) ==
    /\ nPop = 0
    /\ pushed' = IF ret' = TRUE THEN pushed (+) SetToBag({s}) ELSE pushed
    /\ UNCHANGED <<popped, nPop, algoHist>>

Popped ==
    /\ nPop < BagCardinality(pushed)
    /\ nPop' = nPop + 1
    /\ popped' = IF ret' # NULL THEN popped (+) SetToBag({value'[ret']})
                 ELSE popped
    /\ UNCHANGED <<pushed, algoHist>>

PPInsertHead == \E s \in Strings : InsertHeadOf(s, MaxLive) /\ Pushed(s)

PPInsertTail == \E s \in Strings : InsertTailOf(s, MaxLive) /\ Pushed(s)

PPRemoveHead == RemoveHead({NULL}) /\ Popped

PPRemoveTail == RemoveTail({NULL}) /\ Popped

NextPP ==
    \/ PPInsertHead
    \/ PPInsertTail
    \/ PPRemoveHead
    \/ PPRemoveTail

SpecPP == InitPP /\ [][NextPP]_vars

\* ------------------------------------------------------------------------
\* Reading a ring
\* ------------------------------------------------------------------------

\* The cells met by following next from c until head, at most fuel of them.
RECURSIVE Walk(_, _, _, _)
Walk(h, hd, c, fuel) ==
    IF c = hd \/ c \notin Cells \/ fuel = 0 THEN << >>
    ELSE <<c>> \o Walk(h, hd, h.next[c], fuel - 1)

\* The same following prev.
RECURSIVE WalkBack(_, _, _, _)
WalkBack(h, hd, c, fuel) ==
    IF c = hd \/ c \notin Cells \/ fuel = 0 THEN << >>
    ELSE <<c>> \o WalkBack(h, hd, h.prev[c], fuel - 1)

\* The elements of the ring in traversal order (none for an absent ring).
RingSeq(h, hd) ==
    IF hd = NULL THEN << >> ELSE Walk(h, hd, h.next[hd], MaxNodes + 1)

Range(f) == {f[i] : i \in DOMAIN f}

Reversed(q) == [i \in 1 .. Len(q) |-> q[Len(q) + 1 - i]]

NoRepeat(q) == \A i, j \in 1 .. Len(q) : q[i] = q[j] => i = j

\* The payloads of the ring in traversal order.
Payloads(h, hd) ==
    LET q == RingSeq(h, hd) IN [i \in 1 .. Len(q) |-> h.value[q[i]]]

\* Sorted ascending by cmp.
Sorted(h, hd) ==
    LET q == RingSeq(h, hd)
    IN  \A i \in 1 .. Len(q) - 1 : cmp(h, q[i], q[i + 1]) <= 0

\* q is p with some entries left out.
RECURSIVE IsSubSeq(_, _)
IsSubSeq(q, p) ==
    IF q = << >> THEN TRUE
    ELSE IF p = << >> THEN FALSE
    ELSE IF Head(q) = Head(p) THEN IsSubSeq(Tail(q), Tail(p))
    ELSE IsSubSeq(q, Tail(p))

\* The elements whose links are set.
Linked(h) == {e \in Elems : h.next[e] # Poison \/ h.prev[e] # Poison}

Now == RingSeq(H, head)

Before == RingSeq(HeapOf(pre), pre.head)

Input == RingSeq(HeapOf(orig), orig.head)

\* ------------------------------------------------------------------------
\* Claims
\* ------------------------------------------------------------------------

\* C1: after every completed operation the ring is consistent: for every
\* node x of the ring, the sentinel included, x.next.prev = x and
\* x.prev.next = x; following next from the sentinel visits every linked
\* element exactly once and comes back to the sentinel; no link leaves the
\* ring.  With no ring, no element is linked.
C1_RingConsistent ==
    IF head = NULL THEN Linked(H) = {}
    ELSE LET ring == Range(Now) \cup {head}
         IN  /\ Range(Now) \subseteq Elems
             /\ NoRepeat(Now)
             /\ Range(Now) = Linked(H)
             /\ \A x \in ring :
                   /\ next[x] \in ring
                   /\ prev[x] \in ring
                   /\ prev[next[x]] = x
                   /\ next[prev[x]] = x

\* C1 witness: q_sort has just rearranged a ring of three elements.
C1_Witness ==
    /\ lastOp = "q_sort"
    /\ Len(Now) = 3
    /\ Now # Before

\* C2: after inserts at either end of a fresh ring and as many pops as
\* inserts succeeded, every pop returned an element, the bag of the strings of
\* the returned elements is the bag of the strings inserted, and the ring is
\* empty.
C2_PushPopBag ==
    /\ lastOp \in {"q_remove_head", "q_remove_tail"} => ret # NULL
    /\ nPop = BagCardinality(pushed) =>
          /\ popped = pushed
          /\ list_empty(H, head)

\* C2 witness: three strings, two of them different, went in and came out,
\* the last one from the tail.
C2_Witness ==
    /\ BagCardinality(pushed) = 3
    /\ nPop = 3
    /\ Cardinality(BagToSet(popped)) >= 2
    /\ lastOp = "q_remove_tail"

\* C3: q_size is 0 for an absent ring and for a freshly created one; a
\* successful insert makes it exactly 1 larger; a successful q_remove_head,
\* q_remove_tail or q_delete_mid makes it exactly 1 smaller.
C3_SizeSteps ==
    LET was == q_size(HeapOf(pre), pre.head)
        is == q_size(H, head)
    IN  /\ head = NULL => is = 0
        /\ (lastOp = "q_new" /\ ret # NULL) => is = 0
        /\ (lastOp \in {"q_insert_head", "q_insert_tail"} /\ ret = TRUE) =>
              is = was + 1
        /\ (lastOp \in {"q_remove_head", "q_remove_tail"} /\ ret # NULL) =>
              is = was - 1
        /\ (lastOp = "q_delete_mid" /\ ret = TRUE) => is = was - 1

\* C3 witness: q_delete_mid took a ring of three to a ring of two.
C3_Witness ==
    /\ lastOp = "q_delete_mid"
    /\ ret = TRUE
    /\ q_size(HeapOf(pre), pre.head) = 3
    /\ q_size(H, head) = 2

\* C4: after q_sort every adjacent pair (e1, e2) in traversal order has
\* cmp(e1, e2) <= 0.
C4_SortSorts == lastOp = "q_sort" => Sorted(H, head)

\* C4 witness: q_sort ran on an unsorted ring of at least four elements with
\* a repeated payload.
C4_Witness ==
    /\ lastOp = "q_sort"
    /\ Len(Before) >= 4
    /\ ~Sorted(HeapOf(pre), pre.head)
    /\ \E e, f \in Range(Before) : e # f /\ pre.value[e] = pre.value[f]

\* C5: q_sort only rearranges links: the same elements are linked in the
\* ring, each holds the payload it held, and none is allocated or released.
C5_SortPermutes ==
    lastOp = "q_sort" =>
        /\ Range(Now) = Range(Before)
        /\ Len(Now) = Len(Before)
        /\ NoRepeat(Now)
        /\ value = pre.value
        /\ alloc = pre.alloc

\* C5 witness: q_sort changed the order of a ring of at least three elements.
C5_Witness ==
    /\ lastOp = "q_sort"
    /\ Len(Before) >= 3
    /\ Now # Before
    /\ Len(trace) = 1

\* C6: q_sort leaves a ring that is sorted ascending by cmp unchanged (the
\* same elements in the same order); so a second q_sort changes nothing.
C6_SortIdempotent ==
    /\ (lastOp = "q_sort" /\ Sorted(HeapOf(pre), pre.head)) => Now = Before
    /\ (Len(trace) = 2 /\ trace[1] = "q_sort" /\ trace[2] = "q_sort") =>
          Now = Before

\* C6 witness: the second of two q_sort ran on a ring of at least three
\* elements two of which hold the same payload.
C6_Witness ==
    /\ trace = <<"q_sort", "q_sort">>
    /\ Len(Before) >= 3
    /\ \E e, f \in Range(Before) : e # f /\ value[e] = value[f]

\* C7: q_reverse applied twice restores the original sequence of elements.
C7_ReverseInvolution ==
    trace = <<"q_reverse", "q_reverse">> =>
        /\ Now = Input
        /\ next = orig.next
        /\ prev = orig.prev

\* C7 witness: two q_reverse ran on a ring of at least three elements.
C7_Witness ==
    /\ trace = <<"q_reverse", "q_reverse">>
    /\ Len(Input) >= 3

\* C8: after one q_reverse the element at position i is the one that was at
\* position n-1-i; the same elements are linked and none is allocated or
\* released.
C8_ReverseReverses ==
    lastOp = "q_reverse" =>
        /\ Now = Reversed(Before)
        /\ value = pre.value
        /\ alloc = pre.alloc

\* C8 witness: q_reverse ran on a ring of at least four elements.
C8_Witness ==
    /\ lastOp = "q_reverse"
    /\ Len(Before) >= 4
    /\ Now # Before

C10_MidIsFloorHalf ==
    lastOp = "q_mid" =>
        IF Len(Now) >= 1 THEN ret = Now[(Len(Now) \div 2) + 1]
        ELSE ret = head

\* What q_mid returns: the element at 0-based index floor((n-1)/2).
C10_MidIsLowerMiddle ==
    lastOp = "q_mid" =>
        IF Len(Now) >= 1 THEN ret = Now[((Len(Now) - 1) \div 2) + 1]
        ELSE ret = head

\* q without its entry at position k.
Without(q, k) == SubSeq(q, 1, k - 1) \o SubSeq(q, k + 1, Len(q))

\* The position of x in q (0 when it is not there).
PosIn(q, x) ==
    IF \E i \in 1 .. Len(q) : q[i] = x
    THEN CHOOSE i \in 1 .. Len(q) : q[i] = x
    ELSE 0

\* The ring of hd holds exactly the elements of q, linked both ways.
RingIs(h, hd, q) ==
    /\ RingSeq(h, hd) = q
    /\ Reversed(WalkBack(h, hd, h.prev[hd], MaxNodes + 1)) = q

\* ------------------------------------------------------------------------
\* Specification of merge: two disjoint rings, each sorted ascending by cmp,
\* merged one into the other.
\* ------------------------------------------------------------------------

\* The head of the second ring: an automatic list_head of the caller, as
\* new_head is in q_sort.
BHead == new_head_at(0)

\* The link of cell c in the ring of hd that holds q, forwards.
NextIn(hd, q, c) ==
    IF c = hd THEN (IF q = << >> THEN hd ELSE q[1])
    ELSE IF PosIn(q, c) = Len(q) THEN hd ELSE q[PosIn(q, c) + 1]

\* The same backwards.
PrevIn(hd, q, c) ==
    IF c = hd THEN (IF q = << >> THEN hd ELSE q[Len(q)])
    ELSE IF PosIn(q, c) = 1 THEN hd ELSE q[PosIn(q, c) - 1]

\* The ring of QHead holding the elements 1 .. na and the ring of BHead
\* holding na + 1 .. na + nb, with the payloads vals.
TwoRings(na, nb, vals) ==
    LET qa == [i \in 1 .. na |-> i]
        qb == [i \in 1 .. nb |-> na + i]
    IN  [next |-> [c \in Cells |->
                      IF c = QHead \/ c \in 1 .. na THEN NextIn(QHead, qa, c)
                      ELSE IF c = BHead \/ c \in na + 1 .. na + nb
                      THEN NextIn(BHead, qb, c)
                      ELSE Poison],
         prev |-> [c \in Cells |->
                      IF c = QHead \/ c \in 1 .. na THEN PrevIn(QHead, qa, c)
                      ELSE IF c = BHead \/ c \in na + 1 .. na + nb
                      THEN PrevIn(BHead, qb, c)
                      ELSE Poison],
         value |-> [e \in Elems |->
                      IF e \in 1 .. na + nb THEN vals[e] ELSE NoValue],
         alloc |-> (1 .. na + nb) \cup {QHead}]

InitMerge ==
    /\ \E na \in 0 .. MaxLen :
          \E nb \in 0 .. MaxLen - na :
             \E vals \in [1 .. na + nb -> Strings] :
                /\ Sorted(TwoRings(na, nb, vals), QHead)
                /\ Sorted(TwoRings(na, nb, vals), BHead)
                /\ next = TwoRings(na, nb, vals).next
                /\ prev = TwoRings(na, nb, vals).prev
                /\ value = TwoRings(na, nb, vals).value
                /\ alloc = TwoRings(na, nb, vals).alloc
    /\ head = QHead
    /\ held = {}
    /\ buf = [i \in 1 .. BufCap |-> Garbage]
    /\ InitLast
    /\ InitHist

\* merge(head, &b): the ring of BHead merged into the ring of the handle.
MergeAB ==
    /\ SetH(merge(H, head, BHead, 0))
    /\ Done("merge_ab", NULL)
    /\ UNCHANGED <<head, held, buf, algoHist, ppHist>>

\* merge(&b, head): the ring of the handle merged into the ring of BHead.
MergeBA ==
    /\ SetH(merge(H, BHead, head, 0))
    /\ Done("merge_ba", NULL)
    /\ UNCHANGED <<head, held, buf, algoHist, ppHist>>

NextMerge ==
    \/ MergeAB
    \/ MergeBA

SpecMerge == InitMerge /\ [][NextMerge]_vars

\* The first and the second argument of the merge that ran last.
MergeA == IF lastOp = "merge_ba" THEN BHead ELSE head

MergeB == IF lastOp = "merge_ba" THEN head ELSE BHead

\* What the two rings held when it was called, and what the first holds now.
WasA == RingSeq(HeapOf(pre), MergeA)

WasB == RingSeq(HeapOf(pre), MergeB)

Merged == RingSeq(H, MergeA)

\* C12: after merge(a, b) of two disjoint rings sorted ascending by cmp, a
\* holds exactly the elements of a and b, sorted ascending by cmp, b is empty
\* (b.next = b.prev = b), and no element was allocated or released.
C12_MergeMerges ==
    lastOp \in {"merge_ab", "merge_ba"} =>
        /\ Range(Merged) = Range(WasA) \cup Range(WasB)
        /\ Len(Merged) = Len(WasA) + Len(WasB)
        /\ RingIs(H, MergeA, Merged)
        /\ Sorted(H, MergeA)
        /\ next[MergeB] = MergeB
        /\ prev[MergeB] = MergeB
        /\ alloc = pre.alloc
        /\ value = pre.value

\* C12 witness: merge interleaved two rings of at least two elements each.
C12_Witness ==
    /\ lastOp = "merge_ab"
    /\ Len(WasA) >= 2
    /\ Len(WasB) >= 2
    /\ Merged # WasA \o WasB
    /\ Merged # WasB \o WasA

\* C17: in merge(a, b) ties favor a: in the merged ring every element that
\* came from a precedes every element of equal payload that came from b.
C17_TiesFavorA ==
    lastOp \in {"merge_ab", "merge_ba"} =>
        \A x \in Range(WasA), y \in Range(WasB) :
            pre.value[x] = pre.value[y] =>
                PosIn(Merged, x) < PosIn(Merged, y)

\* C17 as the code has it: ties favor b.  The front of a is taken only when
\* it is strictly smaller than the front of b, so in the merged ring every
\* element that came from b precedes every element of equal payload that came
\* from a; the elements of a keep their order and so do those of b.
C17_TiesFavorB ==
    lastOp \in {"merge_ab", "merge_ba"} =>
        /\ \A x \in Range(WasA), y \in Range(WasB) :
              pre.value[x] = pre.value[y] =>
                  /\ PosIn(Merged, y) > 0
                  /\ PosIn(Merged, y) < PosIn(Merged, x)
        /\ \A i, j \in 1 .. Len(WasA) :
              i < j => PosIn(Merged, WasA[i]) < PosIn(Merged, WasA[j])
        /\ \A i, j \in 1 .. Len(WasB) :
              i < j => PosIn(Merged, WasB[i]) < PosIn(Merged, WasB[j])

\* C17 witness: merge met a tie: the two rings shared a payload, and a held
\* a smaller one too.
C17_Witness ==
    /\ lastOp = "merge_ab"
    /\ Len(WasA) >= 2
    /\ \E x \in Range(WasA), y \in Range(WasB) : pre.value[x] = pre.value[y]
    /\ \E x \in Range(WasA), y \in Range(WasB) :
          cmp(HeapOf(pre), x, y) < 0

\* ------------------------------------------------------------------------
\* Specification of the pops with an output buffer: an arbitrary ring (or no
\* ring) as the input, and up to MaxOps pops from either end, each with no
\* buffer or with the caller's buffer and any capacity from 1 to BufCap.
\* ------------------------------------------------------------------------

BufRemoveHead == RemoveHead({NULL, BufAddr}) /\ AlgoStep

BufRemoveTail == RemoveTail({NULL, BufAddr}) /\ AlgoStep

NextBuf ==
    \/ BufRemoveHead
    \/ BufRemoveTail

SpecBuf == InitAlgo /\ [][NextBuf]_vars

Min(a, b) == IF a <= b THEN a ELSE b

\* The element a pop is to remove from the ring it was called on.
ToPop ==
    IF lastOp = "q_remove_head" THEN Before[1] ELSE Before[Len(Before)]

\* C14: q_remove_head and q_remove_tail on an absent or empty ring return
\* NULL, leave the ring unchanged, and leave the output buffer untouched.
C14_PopOfNothing ==
    (lastOp \in {"q_remove_head", "q_remove_tail"} /\ Len(Before) = 0) =>
        /\ ret = NULL
        /\ buf = pre.buf
        /\ Snap = pre

\* C14 witness: q_remove_tail was given the buffer, which an earlier pop had
\* written, and an empty ring.
C14_Witness ==
    /\ lastOp = "q_remove_tail"
    /\ pre.head # NULL
    /\ Len(Before) = 0
    /\ arg.sp = BufAddr
    /\ pre.buf[1] # Garbage
    /\ pre.buf[1] # 0

\* C15: on a non-empty ring, with a buffer of capacity c >= 1, a pop leaves in
\* the buffer the first min(len, c-1) bytes of the string of the removed
\* element and then a NUL, writes nothing at or beyond index c, and returns
\* the unlinked element with its whole string.
C15_PopCopies ==
    (lastOp \in {"q_remove_head", "q_remove_tail"} /\ Len(Before) > 0
        /\ arg.sp # NULL) =>
        LET c == arg.bufsize
            str == pre.value[ToPop]
            k == Min(Len(str), c - 1)
        IN  /\ ret = ToPop
            /\ \A i \in 1 .. k : buf[i] = str[i]
            /\ buf[k + 1] = 0
            /\ CStr(buf) = SubSeq(str, 1, k)
            /\ \A i \in c + 1 .. BufCap : buf[i] = pre.buf[i]
            /\ Now = Without(Before, PosIn(Before, ToPop))
            /\ ret \notin Linked(H)
            /\ ret \in alloc
            /\ value[ret] = str

\* C15 witness: a pop truncated a string of two bytes to fit a capacity of
\* two.
C15_Witness ==
    /\ lastOp = "q_remove_head"
    /\ Len(Before) >= 2
    /\ arg.sp = BufAddr
    /\ arg.bufsize = 2
    /\ Len(value[ret]) = 2
    /\ CStr(buf) = SubSeq(value[ret], 1, 1)

\* C11: q_delete_mid returns false and changes nothing on an absent or empty
\* ring; on a ring of n >= 1 elements it returns true, unlinks and releases
\* exactly the element at 0-based index floor(n/2) and leaves the others
\* linked in their order.
C11_DeleteMidIsFloorHalf ==
    lastOp = "q_delete_mid" =>
        IF Len(Before) = 0 THEN ret = FALSE /\ Snap = pre
        ELSE LET k == (Len(Before) \div 2) + 1
             IN  /\ ret = TRUE
                 /\ Now = Without(Before, k)
                 /\ alloc = pre.alloc \ {Before[k]}
                 /\ Before[k] \notin Linked(H)

\* What q_delete_mid does: the same with the element at 0-based index
\* floor((n-1)/2).
C11_DeleteMidIsLowerMiddle ==
    lastOp = "q_delete_mid" =>
        IF Len(Before) = 0 THEN ret = FALSE /\ Snap = pre
        ELSE LET k == ((Len(Before) - 1) \div 2) + 1
             IN  /\ ret = TRUE
                 /\ Now = Without(Before, k)
                 /\ alloc = pre.alloc \ {Before[k]}
                 /\ Before[k] \notin Linked(H)

\* C13: q_swap exchanges the payloads at positions 2i and 2i+1 for every
\* pair inside the ring, leaves the payload of the last element of a ring of
\* odd length, and leaves the order of the nodes; it changes nothing on an
\* absent or empty ring.
C13_SwapPairs ==
    lastOp = "q_swap" =>
        LET n == Len(Before)
        IN  /\ Now = Before
            /\ next = pre.next
            /\ prev = pre.prev
            /\ alloc = pre.alloc
            /\ n = 0 => Snap = pre
            /\ \A p \in 1 .. n :
                  value[Now[p]] =
                     IF p % 2 = 0 THEN pre.value[Before[p - 1]]
                     ELSE IF p + 1 <= n THEN pre.value[Before[p + 1]]
                     ELSE pre.value[Before[p]]

\* C13 witness: q_swap ran on a ring of three elements whose first two
\* payloads differ.
C13_Witness ==
    /\ lastOp = "q_swap"
    /\ Len(Before) = 3
    /\ pre.value[Before[1]] # pre.value[Before[2]]
    /\ pre.value[Before[2]] # pre.value[Before[3]]

\* C18: on every ring of n >= 2 elements the cut of q_sort at the node q_mid
\* returns leaves both rings non-empty: new_head gets the leading elements up
\* to and including that node, the ring keeps the rest, each has between 1
\* and n-1 elements and the sizes differ by at most 1; so every recursive
\* call is on a shorter ring.
C18_CutShrinks ==
    (head # NULL /\ Len(Now) >= 2) =>
        LET h1 == q_sort_cut(H, head, 0)
            lead == RingSeq(h1, new_head_at(0))
            rest == RingSeq(h1, head)
        IN  /\ lead \o rest = Now
            /\ RingIs(h1, new_head_at(0), lead)
            /\ RingIs(h1, head, rest)
            /\ lead[Len(lead)] = q_mid(H, head)
            /\ Len(lead) \in 1 .. Len(Now) - 1
            /\ Len(rest) \in 1 .. Len(Now) - 1
            /\ Len(lead) - Len(rest) \in {-1, 0, 1}

\* C18 witness: q_sort returned on a ring of four elements it had to
\* rearrange.
C18_Witness ==
    /\ lastOp = "q_sort"
    /\ Len(Before) = 4
    /\ Now # Before
    /\ Sorted(H, head)

\* C19: q_sort is stable: two elements with equal payloads keep their
\* relative order.
C19_SortStable ==
    lastOp = "q_sort" =>
        \A i, j \in 1 .. Len(Before) :
            (i < j /\ pre.value[Before[i]] = pre.value[Before[j]]) =>
                /\ PosIn(Now, Before[i]) > 0
                /\ PosIn(Now, Before[i]) < PosIn(Now, Before[j])

\* C19 witness: q_sort moved an element from between two elements of equal
\* payload.
C19_Witness ==
    /\ lastOp = "q_sort"
    /\ \E i, j, k \in 1 .. Len(Before) :
          /\ i < k /\ k < j
          /\ pre.value[Before[i]] = pre.value[Before[j]]
          /\ cmp(HeapOf(pre), Before[k], Before[i]) < 0

\* C16: with either malloc of create_element free to fail, every element that
\* is allocated and not released is linked in the ring, once, or held by the
\* caller as the result of a pop, with its payload; a failed insert returns
\* false, leaves the ring unchanged and leaves nothing it allocated; what
\* q_delete_mid and q_delete_dup unlink they release; q_free releases every
\* element of the ring and the ring.
C16_NoLeak ==
    /\ alloc \cap Elems = Range(Now) \cup held
    /\ Range(Now) \cap held = {}
    /\ NoRepeat(Now)
    /\ QHead \in alloc <=> head # NULL
    /\ \A e \in Elems :
          /\ e \in alloc => value[e] \in Strings
          /\ e \notin alloc => value[e] = NoValue /\ e \notin Linked(H)
          /\ e \in held => e \notin Linked(H) /\ value[e] = pre.value[e]
    /\ (lastOp \in {"q_insert_head", "q_insert_tail"} /\ ret = FALSE) =>
          Snap = pre
    /\ lastOp \in {"q_delete_mid", "q_delete_dup"} =>
          /\ alloc = pre.alloc \ (Range(Before) \ Range(Now))
          /\ held = pre.held
    /\ lastOp = "q_free" =>
          /\ alloc = pre.held
          /\ held = pre.held
          /\ head = NULL

\* C16 witness: an insert failed on a ring of one element while the caller
\* held another and a cell was free.
C16_Witness ==
    /\ lastOp = "q_insert_tail"
    /\ ret = FALSE
    /\ Len(Now) = 1
    /\ Cardinality(held) = 1
    /\ FreeCells(MaxLive) # {}

\* C20: the ring is a double-ended sequence.  With S the payloads read by
\* following next from the sentinel: a successful q_insert_head(s) gives
\* <<s>> \o S and q_insert_tail(s) gives S \o <<s>>; q_remove_head returns the
\* element holding Head(S) and leaves Tail(S); q_remove_tail returns the
\* element holding the last entry of S and leaves S without it; following
\* prev reads the exact reverse of S.
C20_Deque ==
    LET S == Payloads(HeapOf(pre), pre.head)
        T == Payloads(H, head)
    IN  /\ (lastOp = "q_insert_head" /\ ret = TRUE) => T = <<arg.s>> \o S
        /\ (lastOp = "q_insert_tail" /\ ret = TRUE) => T = S \o <<arg.s>>
        /\ (lastOp = "q_remove_head" /\ Len(S) > 0) =>
              /\ ret = Before[1]
              /\ value[ret] = Head(S)
              /\ T = Tail(S)
        /\ (lastOp = "q_remove_tail" /\ Len(S) > 0) =>
              /\ ret = Before[Len(S)]
              /\ value[ret] = S[Len(S)]
              /\ T = SubSeq(S, 1, Len(S) - 1)
        /\ head # NULL =>
              WalkBack(H, head, prev[head], MaxNodes + 1) = Reversed(Now)

\* C20 witness: q_insert_head put a third string in front of a different
\* one.
C20_Witness ==
    /\ lastOp = "q_insert_head"
    /\ ret = TRUE
    /\ Len(Now) = 3
    /\ arg.s = value[Now[1]]
    /\ arg.s # value[Now[2]]
    /\ value[Now[2]] # value[Now[3]]

====
